---------------------------- MODULE Spec2Model ----------------------------
(***************************************************************************)
(* The brainrust virtual machine (src/src/vm.rs, src/src/interpret.rs):    *)
(* Program construction from text, Machine::new (loop-table construction), *)
(* Machine::step (one action per instruction variant) and Machine::run.    *)
(*                                                                         *)
(* Indices are 0-based as in the Rust source: the instruction at index i   *)
(* is program[i + 1] and the cell at index k is memory[k + 1].             *)
(***************************************************************************)
EXTENDS Integers, Sequences, FiniteSets, TLC

(***************************************************************************)
(* Bounds of the model.                                                    *)
(***************************************************************************)
\* Every source text of at most this many characters is a program of the model.
MaxProgLen == 3
\* Every input byte sequence of at most this many bytes is an input.
MaxInput == 2
\* step() is called until this many instructions have been executed.
MaxSteps == 20

(***************************************************************************)
(* Values of the Rust types.                                               *)
(***************************************************************************)
None == << >>
Ok(v) == <<"Ok", v>>
Err(e) == <<"Err", e>>
UnmatchedOpenBracket(i) == <<"UnmatchedOpenBracket", i>>
UnmatchedCloseBracket(i) == <<"UnmatchedCloseBracket", i>>
Io == <<"Io">>
\* A failed unwrap(): the thread panics, step() returns nothing.
Panic == <<"Panic">>

\* enum Instruction
MoveRight == [op |-> "MoveRight"]
MoveLeft == [op |-> "MoveLeft"]
Increment == [op |-> "Increment"]
Decrement == [op |-> "Decrement"]
Write == [op |-> "Write"]
Read == [op |-> "Read"]
While == [op |-> "While"]
WhileEnd == [op |-> "WhileEnd"]
Comment(c) == [op |-> "Comment", ch |-> c]

\* Mutant of FromChar: every character that is not reserved becomes Comment("x").
FromChar_OneComment(c) ==
    CASE c = ">" -> MoveRight
      [] c = "<" -> MoveLeft
      [] c = "+" -> Increment
      [] c = "-" -> Decrement
      [] c = "." -> Write
      [] c = "," -> Read
      [] c = "[" -> While
      [] c = "]" -> WhileEnd
      [] OTHER -> Comment("x")
\* impl From<char> for Instruction
FromChar(c) ==
    CASE c = ">" -> MoveRight
      [] c = "<" -> MoveLeft
      [] c = "+" -> Increment
      [] c = "-" -> Decrement
      [] c = "." -> Write
      [] c = "," -> Read
      [] c = "[" -> While
      [] c = "]" -> WhileEnd
      [] OTHER -> Comment(c)

\* impl From<&str> for Program: one Instruction per character, in order.
FromStr(s) == [i \in 1..Len(s) |-> FromChar(s[i])]

\* Program::get
Get(prog, i) == IF i < Len(prog) THEN prog[i + 1] ELSE None

(***************************************************************************)
(* The cell type I: an unsigned integer of `bits` bits.                    *)
(***************************************************************************)
Pow2(n) == 2 ^ n
\* Mutant of MaxValue: the largest byte, whatever the cell type.
MaxValue_Byte(b) == 255

\* I::max_value()
MaxValue(b) == Pow2(b) - 1
\* Mutant of WrappingAdd: the addition saturates at the largest value.
WrappingAdd_Saturating(b, x) == IF x = Pow2(b) - 1 THEN x ELSE x + 1

\* I::wrapping_add(x, one())
WrappingAdd(b, x) == (x + 1) % Pow2(b)
\* I::wrapping_sub(x, one())
WrappingSub(b, x) == (x - 1) % Pow2(b)
\* I::from_u16(n), I::from_u8(n) is Some(n) when n fits the cell type, else None.
FromPrimitiveIsSome(b, n) == n <= MaxValue(b)
\* x.to_u8() is Some(x) when x fits a byte, else None.
ToU8IsSome(x) == x <= 255

\* Mutant of WriteValue: the byte is taken modulo 255.
WriteValue_Mod255(b, x) == IF b > 8 THEN x % 255 ELSE x

\* The value step() narrows to a byte in the Write arm, before to_u8().
WriteValue(b, x) == IF FromPrimitiveIsSome(b, 256) THEN x % 256 ELSE x

\* Mutant of ReadValue: the end of input stores zero.
ReadValue_EofZero(b, n, byte) == IF n > 0 THEN byte ELSE 0

\* The value step() stores in the Read arm: `n` bytes were read into buf = <<byte>>
\* (from_u8 of a byte is Some for every cell type of at least 8 bits).
ReadValue(b, n, byte) == IF n > 0 THEN byte ELSE MaxValue(b)

(***************************************************************************)
(* Machine::new: the loop tables for a program, by one pass with a stack.  *)
(***************************************************************************)
EmptyMap == [k \in {} |-> 0]

\* Mutant of Pushed: the position goes to the bottom of the stack.
Pushed_Bottom(stack, ins, i) == IF ins = While THEN <<i>> \o stack ELSE stack
\* The stack after the `if instruction == While` statement.
Pushed(stack, ins, i) == IF ins = While THEN Append(stack, i) ELSE stack

\* Whether the `if let Some(open_loc) = open_stack.pop()` body runs.
Pops(stack, ins) == ins = WhileEnd /\ stack # << >>

RECURSIVE Scan(_, _, _, _, _)
Scan(prog, i, o2c, c2o, stack) ==
    IF i >= Len(prog)
    THEN [open_to_close |-> o2c, close_to_open |-> c2o]
    ELSE LET ins == prog[i + 1]
             pushed == Pushed(stack, ins, i)
         IN  IF Pops(pushed, ins)
             THEN LET open_loc == pushed[Len(pushed)]
                  IN  Scan(prog, i + 1, o2c @@ (open_loc :> i), c2o @@ (i :> open_loc),
                           SubSeq(pushed, 1, Len(pushed) - 1))
             ELSE Scan(prog, i + 1, o2c, c2o, pushed)

\* Mutant of Tables: the pass records close -> open only.
Tables_CloseOnly(prog) ==
    [open_to_close |-> EmptyMap,
     close_to_open |-> Scan(prog, 0, EmptyMap, EmptyMap, << >>).close_to_open]

Tables(prog) == Scan(prog, 0, EmptyMap, EmptyMap, << >>)

(***************************************************************************)
(* The programs, inputs and cell widths of the model.                      *)
(***************************************************************************)
\* The eight reserved characters and one other character.
Chars == {">", "<", "+", "-", ".", ",", "[", "]", "x"}

\* The program of tests::cat.
Cat == <<",", "+", "[", "-", ".", ",", "+", "]">>

Sources == UNION {[1..n -> Chars] : n \in 0..MaxProgLen} \cup {Cat}

\* Input bytes: zero, an ordinary byte, the largest byte.
Bytes == {0, 47, 255}

Inputs == UNION {[1..n -> Bytes] : n \in 0..MaxInput}

\* Machine::<_, _, u8> and Machine::<_, _, u16>.
Widths == {8, 16}

\* Who calls step(): Machine::run, or a caller of the public step() itself.
Drivers == {"run", "step"}

\* The number of Read instructions of a source text.
ReadCount(s) == Cardinality({i \in 1..Len(s) : s[i] = ","})

\* Only a `]` with an entry in close_to_open sets the instruction pointer back.
CanLoop(s) == DOMAIN Tables(FromStr(s)).close_to_open # {}

\* The inputs a program is run on. A Read step is the only use of the input and
\* takes at most one byte; without a backward jump each Read instruction is executed
\* at most once, so bytes beyond the number of Read instructions are never read.
InputsFor(s) ==
    {inp \in Inputs : Len(inp) <= ReadCount(s) \/ (CanLoop(s) /\ ReadCount(s) > 0)}

VARIABLES
    program,          \* Machine.program
    instruction_ptr,  \* Machine.instruction_ptr
    memory,           \* Machine.memory
    data_ptr,         \* Machine.data_ptr
    open_to_close,    \* Machine.open_to_close
    close_to_open,    \* Machine.close_to_open
    input,            \* Machine.input: the bytes not read yet
    output,           \* Machine.output: the bytes written so far
    bits,             \* the width of the cell type I
    driver,           \* "run": Machine::run drives; "step": step() is called directly
    time,             \* run's `time`: the number of step() calls run() has made
    result,           \* what the last step() call returned (None before the first)
    ret,              \* what run() returned (None while it is looping)
    io_ret,           \* the read or write_all call of the last step() and what it
                      \* returned (None: the step made no such call)
    given,            \* the input the machine was constructed with
    executed,         \* the number of step() calls that executed an instruction
    source,           \* the text the Program was built from
    offset            \* the number of push_front calls made on the memory

vars == <<program, instruction_ptr, memory, data_ptr, open_to_close,
          close_to_open, input, output, bits, driver, time, result, ret,
          io_ret, given, executed, source, offset>>

Init ==
    \E s \in Sources, w \in Widths, d \in Drivers :
      \E inp \in InputsFor(s) :
        /\ program = FromStr(s)
        /\ instruction_ptr = 0
        /\ memory = <<0>>
        /\ data_ptr = 0
        /\ open_to_close = Tables(FromStr(s)).open_to_close
        /\ close_to_open = Tables(FromStr(s)).close_to_open
        /\ input = inp
        /\ output = << >>
        /\ bits = w
        /\ driver = d
        /\ time = 0
        /\ result = None
        /\ ret = None
        /\ io_ret = None
        /\ given = inp
        /\ executed = 0
        /\ source = s
        /\ offset = 0

(***************************************************************************)
(* Machine::run and Machine::step.                                         *)
(***************************************************************************)
\* run's `time += 1`.
Tick(t) == t + 1

\* run's match on the value step() returned.
RunReturn(r, t, res) ==
    IF res = Ok(FALSE) THEN r
    ELSE IF res = Ok(TRUE) THEN Ok(t)
    ELSE res

\* step() may be called: run's loop has not ended, or the caller calls it.
Calling == executed < MaxSteps /\ (driver = "run" => ret = None)

\* step() returns `res` to its caller.
Returns(res) ==
    /\ time' = IF driver = "run" THEN Tick(time) ELSE time
    /\ result' = res
    /\ ret' = IF driver = "run" THEN RunReturn(ret, Tick(time), res) ELSE ret
    /\ executed' = IF res = Ok(FALSE) THEN executed + 1 ELSE executed
    /\ UNCHANGED <<program, open_to_close, close_to_open, bits, driver, given,
                   source>>

\* The instruction step() dispatches on.
Fetched(ins) ==
    /\ Calling
    /\ Get(program, instruction_ptr) = ins

\* The step makes no read or write call.
NoIo == io_ret' = None

\* The cell under the data pointer exists.
CellExists == data_ptr < Len(memory)
Cell == memory[data_ptr + 1]

\* memory.get(..).unwrap() on a missing cell.
Panics ==
    /\ Returns(Panic)
    /\ NoIo
    /\ UNCHANGED <<instruction_ptr, memory, data_ptr, input, output, offset>>

\* Mutant of Advance: the instruction pointer is incremented twice.
Advance_Twice(ip) ==
    /\ instruction_ptr' = ip + 2
    /\ Returns(Ok(FALSE))
\* `self.instruction_ptr += 1; Ok(false)`
Advance(ip) ==
    /\ instruction_ptr' = ip + 1
    /\ Returns(Ok(FALSE))

\* Mutant of StepCompleted: the call that reports completion moves the pointer on.
StepCompleted_MovesOn ==
    /\ Calling
    /\ Get(program, instruction_ptr) = None
    /\ instruction_ptr' = instruction_ptr + 1
    /\ Returns(Ok(TRUE))
    /\ NoIo
    /\ UNCHANGED <<memory, data_ptr, input, output, offset>>
StepCompleted ==
    /\ Calling
    /\ Get(program, instruction_ptr) = None
    /\ Returns(Ok(TRUE))
    /\ NoIo
    /\ UNCHANGED <<instruction_ptr, memory, data_ptr, input, output, offset>>

\* The tape and data pointer after the MoveRight arm.
RightPtr(dp) == dp + 1
\* Mutant of RightMemory: no cell is appended at the right end.
RightMemory_NoGrow(mem, dp) == mem
RightMemory(mem, dp) == IF dp + 1 < Len(mem) THEN mem ELSE Append(mem, 0)

StepMoveRight ==
    /\ Fetched(MoveRight)
    /\ data_ptr' = RightPtr(data_ptr)
    /\ memory' = RightMemory(memory, data_ptr)
    /\ Advance(instruction_ptr)
    /\ NoIo
    /\ UNCHANGED <<input, output, offset>>

\* The tape and data pointer after the MoveLeft arm.
LeftPtr(dp) == IF dp = 0 THEN dp ELSE dp - 1
\* Mutant of LeftMemory: no cell is prepended at the left end.
LeftMemory_NoGrow(mem, dp) == mem

\* Mutant of LeftMemory: the new cell goes to the right end.
LeftMemory_Append(mem, dp) == IF dp = 0 THEN mem \o <<0>> ELSE mem
LeftMemory(mem, dp) == IF dp = 0 THEN <<0>> \o mem ELSE mem
\* The number of push_front calls after the MoveLeft arm.
LeftOffset(off, dp) == IF dp = 0 THEN off + 1 ELSE off

StepMoveLeft ==
    /\ Fetched(MoveLeft)
    /\ data_ptr' = LeftPtr(data_ptr)
    /\ memory' = LeftMemory(memory, data_ptr)
    /\ offset' = LeftOffset(offset, data_ptr)
    /\ Advance(instruction_ptr)
    /\ NoIo
    /\ UNCHANGED <<input, output>>

StepIncrement ==
    /\ Fetched(Increment)
    /\ IF CellExists
       THEN /\ memory' = [memory EXCEPT ![data_ptr + 1] = WrappingAdd(bits, Cell)]
            /\ Advance(instruction_ptr)
            /\ NoIo
            /\ UNCHANGED <<data_ptr, input, output, offset>>
       ELSE Panics

StepDecrement ==
    /\ Fetched(Decrement)
    /\ IF CellExists
       THEN /\ memory' = [memory EXCEPT ![data_ptr + 1] = WrappingSub(bits, Cell)]
            /\ Advance(instruction_ptr)
            /\ NoIo
            /\ UNCHANGED <<data_ptr, input, output, offset>>
       ELSE Panics

\* What output.write_all(&buf) can return: Ok(()) or an I/O error.
WriteReturns == {Ok(<< >>), Err(Io)}

\* Mutant of StepWrite: a failed write_all still moves the instruction pointer on.
StepWrite_FailureMovesOn ==
    /\ Fetched(Write)
    /\ \E w \in WriteReturns :
         /\ io_ret' = <<"write_all", w>>
         /\ instruction_ptr' = instruction_ptr + 1
         /\ IF w = Err(Io)
            THEN /\ Returns(Err(Io))
                 /\ UNCHANGED <<memory, data_ptr, input, output, offset>>
            ELSE /\ output' = Append(output, WriteValue(bits, Cell))
                 /\ Returns(Ok(FALSE))
                 /\ UNCHANGED <<memory, data_ptr, input, offset>>
StepWrite ==
    /\ Fetched(Write)
    /\ IF CellExists /\ ToU8IsSome(WriteValue(bits, Cell))
       THEN \E w \in WriteReturns :
              /\ io_ret' = <<"write_all", w>>
              /\ IF w = Err(Io)
                 THEN /\ Returns(Err(Io))
                      /\ UNCHANGED <<instruction_ptr, memory, data_ptr, input, output, offset>>
                 ELSE /\ output' = Append(output, WriteValue(bits, Cell))
                      /\ Advance(instruction_ptr)
                      /\ UNCHANGED <<memory, data_ptr, input, offset>>
       ELSE Panics

\* What input.read(&mut buf) can return on a one-byte buffer: Ok(1) with the next
\* byte, Ok(0) when the source is exhausted, or an I/O error.
ReadReturns(inp) == {Ok(IF inp = << >> THEN 0 ELSE 1), Err(Io)}

StepRead ==
    /\ Fetched(Read)
    /\ \E r \in ReadReturns(input) :
         /\ io_ret' = <<"read", r>>
         /\ IF r = Err(Io)
            THEN /\ Returns(Err(Io))
                 /\ UNCHANGED <<instruction_ptr, memory, data_ptr, input, output, offset>>
            ELSE LET bytes_read == r[2]
                     byte == IF bytes_read > 0 THEN Head(input) ELSE 0
                 IN  /\ input' = IF bytes_read > 0 THEN Tail(input) ELSE input
                     /\ IF CellExists
                        THEN /\ memory' = [memory EXCEPT ![data_ptr + 1] =
                                              ReadValue(bits, bytes_read, byte)]
                             /\ Advance(instruction_ptr)
                             /\ UNCHANGED <<data_ptr, output, offset>>
                        ELSE /\ Returns(Panic)
                             /\ UNCHANGED <<instruction_ptr, memory, data_ptr, output, offset>>

\* Mutant of StepWhile: the table is looked up before the cell is tested.
StepWhile_EagerLookup ==
    /\ Fetched(While)
    /\ NoIo
    /\ IF instruction_ptr \notin DOMAIN open_to_close
       THEN /\ Returns(Err(UnmatchedOpenBracket(instruction_ptr)))
            /\ UNCHANGED <<instruction_ptr, memory, data_ptr, input, output, offset>>
       ELSE /\ Advance(IF Cell = 0 THEN open_to_close[instruction_ptr]
                       ELSE instruction_ptr)
            /\ UNCHANGED <<memory, data_ptr, input, output, offset>>

\* Mutant of StepWhile: the jump leaves the instruction pointer on the `]`.
StepWhile_OnClose ==
    /\ Fetched(While)
    /\ NoIo
    /\ IF Cell = 0
       THEN IF instruction_ptr \in DOMAIN open_to_close
            THEN /\ instruction_ptr' = open_to_close[instruction_ptr]
                 /\ Returns(Ok(FALSE))
                 /\ UNCHANGED <<memory, data_ptr, input, output, offset>>
            ELSE /\ Returns(Err(UnmatchedOpenBracket(instruction_ptr)))
                 /\ UNCHANGED <<instruction_ptr, memory, data_ptr, input, output, offset>>
       ELSE /\ Advance(instruction_ptr)
            /\ UNCHANGED <<memory, data_ptr, input, output, offset>>
StepWhile ==
    /\ Fetched(While)
    /\ IF ~CellExists THEN Panics
       ELSE NoIo /\ IF Cell = 0
            THEN IF instruction_ptr \in DOMAIN open_to_close
                 THEN /\ Advance(open_to_close[instruction_ptr])
                      /\ UNCHANGED <<memory, data_ptr, input, output, offset>>
                 ELSE /\ Returns(Err(UnmatchedOpenBracket(instruction_ptr)))
                      /\ UNCHANGED <<instruction_ptr, memory, data_ptr, input, output, offset>>
            ELSE /\ Advance(instruction_ptr)
                 /\ UNCHANGED <<memory, data_ptr, input, output, offset>>

\* Mutant of StepWhileEnd: the table is looked up before the cell is tested.
StepWhileEnd_EagerLookup ==
    /\ Fetched(WhileEnd)
    /\ NoIo
    /\ IF instruction_ptr \notin DOMAIN close_to_open
       THEN /\ Returns(Err(UnmatchedCloseBracket(instruction_ptr)))
            /\ UNCHANGED <<instruction_ptr, memory, data_ptr, input, output, offset>>
       ELSE /\ Advance(IF Cell # 0 THEN close_to_open[instruction_ptr]
                       ELSE instruction_ptr)
            /\ UNCHANGED <<memory, data_ptr, input, output, offset>>

\* Mutant of StepWhileEnd: the cell is tested for zero, as in the While arm.
StepWhileEnd_ZeroTest ==
    /\ Fetched(WhileEnd)
    /\ NoIo
    /\ IF Cell = 0
       THEN IF instruction_ptr \in DOMAIN close_to_open
            THEN /\ Advance(close_to_open[instruction_ptr])
                 /\ UNCHANGED <<memory, data_ptr, input, output, offset>>
            ELSE /\ Returns(Err(UnmatchedCloseBracket(instruction_ptr)))
                 /\ UNCHANGED <<instruction_ptr, memory, data_ptr, input, output, offset>>
       ELSE /\ Advance(instruction_ptr)
            /\ UNCHANGED <<memory, data_ptr, input, output, offset>>

\* Mutant of StepWhileEnd: the jump leaves the instruction pointer on the `[`.
StepWhileEnd_OnOpen ==
    /\ Fetched(WhileEnd)
    /\ NoIo
    /\ IF Cell # 0
       THEN IF instruction_ptr \in DOMAIN close_to_open
            THEN /\ instruction_ptr' = close_to_open[instruction_ptr]
                 /\ Returns(Ok(FALSE))
                 /\ UNCHANGED <<memory, data_ptr, input, output, offset>>
            ELSE /\ Returns(Err(UnmatchedCloseBracket(instruction_ptr)))
                 /\ UNCHANGED <<instruction_ptr, memory, data_ptr, input, output, offset>>
       ELSE /\ Advance(instruction_ptr)
            /\ UNCHANGED <<memory, data_ptr, input, output, offset>>
StepWhileEnd ==
    /\ Fetched(WhileEnd)
    /\ IF ~CellExists THEN Panics
       ELSE NoIo /\ IF Cell # 0
            THEN IF instruction_ptr \in DOMAIN close_to_open
                 THEN /\ Advance(close_to_open[instruction_ptr])
                      /\ UNCHANGED <<memory, data_ptr, input, output, offset>>
                 ELSE /\ Returns(Err(UnmatchedCloseBracket(instruction_ptr)))
                      /\ UNCHANGED <<instruction_ptr, memory, data_ptr, input, output, offset>>
            ELSE /\ Advance(instruction_ptr)
                 /\ UNCHANGED <<memory, data_ptr, input, output, offset>>

StepComment ==
    /\ \E c \in Chars : Fetched(Comment(c))
    /\ Advance(instruction_ptr)
    /\ NoIo
    /\ UNCHANGED <<memory, data_ptr, input, output, offset>>

Next ==
    \/ StepCompleted
    \/ StepMoveRight
    \/ StepMoveLeft
    \/ StepIncrement
    \/ StepDecrement
    \/ StepWrite
    \/ StepRead
    \/ StepWhile
    \/ StepWhileEnd
    \/ StepComment

Spec == Init /\ [][Next]_vars

\* run()'s loop runs on: it keeps calling step() (single-threaded, no suspension).
FairSpec == Spec /\ WF_vars(Next)

(***************************************************************************)
(* Vocabulary of the properties.                                           *)
(***************************************************************************)
IsOk(r) == r # None /\ r[1] = "Ok"
IsErr(r) == r # None /\ r[1] = "Err"
IsBracketErr(r) ==
    IsErr(r) /\ r[2][1] \in {"UnmatchedOpenBracket", "UnmatchedCloseBracket"}

ByRun == driver = "run"
Returned == ByRun /\ ret # None

AllZero == \A k \in 1..Len(memory) : memory[k] = 0

\* Whether the brackets of prog[i + 1 ..] are balanced, `depth` being open before.
RECURSIVE BalancedFrom(_, _, _)
BalancedFrom(prog, i, depth) ==
    IF i >= Len(prog) THEN depth = 0
    ELSE IF prog[i + 1] = While THEN BalancedFrom(prog, i + 1, depth + 1)
    ELSE IF prog[i + 1] = WhileEnd
         THEN depth > 0 /\ BalancedFrom(prog, i + 1, depth - 1)
    ELSE BalancedFrom(prog, i + 1, depth)

Balanced(prog) == BalancedFrom(prog, 0, 0)

\* Only `>`, `<` and balanced `[`, `]`.
MoveOnlyBalanced ==
    /\ \A i \in 1..Len(program) : program[i] \in {MoveRight, MoveLeft, While, WhileEnd}
    /\ Balanced(program)

(***************************************************************************)
(* C1: the cat program.                                                    *)
(***************************************************************************)
IsCat == program = FromStr(Cat)

\* The input up to, and not including, its first byte equal to the end-of-input
\* sentinel of a b-bit cell.
RECURSIVE UpToSentinel(_, _)
UpToSentinel(inp, b) ==
    IF inp = << >> \/ Head(inp) = Pow2(b) - 1 THEN << >>
    ELSE <<Head(inp)>> \o UpToSentinel(Tail(inp), b)

\* C1 as claimed: for the program `,+[-.,+]` run by run() on any finite input
\* (source and sink not failing), for every cell width, run() returns Ok and the
\* output is exactly the input.
C1_CatRoundTripEveryWidth ==
    (IsCat /\ Returned /\ ret # Err(Io)) => (IsOk(ret) /\ output = given)

\* C1 amended: run() on `,+[-.,+]` makes at most 4 + 5n step() calls on an input
\* of n bytes and, source and sink not failing, returns Ok with the output equal
\* to the input up to its first byte equal to the sentinel 2^W - 1: the whole
\* input when W > 8, the input before its first 255 when W = 8.
C1_CatRoundTripUpToSentinel ==
    (IsCat /\ ByRun) =>
        /\ time <= 4 + 5 * Len(given)
        /\ (ret # None /\ ret # Err(Io)) =>
              /\ IsOk(ret)
              /\ output = UpToSentinel(given, bits)
              /\ bits > 8 => output = given

\* run() has echoed a 16-bit-cell input that holds the byte 255 and the byte 0.
C1_Witness ==
    /\ IsCat /\ Returned /\ IsOk(ret) /\ bits = 16
    /\ given = <<255, 0>> /\ output = given

(***************************************************************************)
(* C2: the value run() returns.                                            *)
(***************************************************************************)
\* C2 as claimed: for a program of balanced brackets and data movement only,
\* the value run() returns is the number of step() calls that executed an
\* instruction.
C2_RunReturnsExecutedCount ==
    (Returned /\ MoveOnlyBalanced /\ IsOk(ret)) => ret[2] = executed

(***************************************************************************)
(* C3: termination of programs of `>`, `<` and balanced brackets.          *)
(***************************************************************************)
\* C3: for a program of only `>`, `<` and balanced `[`, `]`, run() eventually
\* returns Ok and no step fails; every cell stays zero, every LoopStart step
\* lands just past its matching LoopEnd, and no LoopEnd is ever executed, so
\* none jumps back.
C3_MoveOnlyTerminates ==
    /\ (MoveOnlyBalanced /\ ByRun) => <>IsOk(ret)
    /\ []((MoveOnlyBalanced /\ ByRun) =>
            (AllZero /\ ~IsErr(result) /\ ~IsErr(ret) /\ result # Panic
             /\ time <= Len(program) + 1))
    /\ [][(MoveOnlyBalanced /\ ByRun) =>
            /\ Get(program, instruction_ptr) # WhileEnd
            /\ Get(program, instruction_ptr) = While =>
                  /\ instruction_ptr \in DOMAIN open_to_close
                  /\ instruction_ptr' = open_to_close[instruction_ptr] + 1]_vars

\* run() has returned Ok for a program of the class that holds a loop.
C3_Witness ==
    /\ Returned /\ IsOk(ret) /\ MoveOnlyBalanced
    /\ \E i \in 1..Len(program) : program[i] = While
    /\ \E i \in 1..Len(program) : program[i] = MoveLeft

(***************************************************************************)
(* C4, C5, C6: unresolved brackets.                                        *)
(***************************************************************************)
\* The instruction pointer is on a `[` with no entry in open_to_close.
AtUnresolvedOpen ==
    /\ Get(program, instruction_ptr) = While
    /\ instruction_ptr \notin DOMAIN open_to_close

\* The instruction pointer is on a `]` with no entry in close_to_open.
AtUnresolvedClose ==
    /\ Get(program, instruction_ptr) = WhileEnd
    /\ instruction_ptr \notin DOMAIN close_to_open

\* C4: a step on a LoopStart at index i with no open_to_close entry returns
\* UnmatchedOpenBracket(i) when the cell is zero, and when the cell is not zero
\* returns Ok(false) with the instruction pointer at i + 1; the index of such an
\* error is always the position of an unresolved `[` of the program.
C4_UnmatchedOpen ==
    /\ [][AtUnresolvedOpen =>
            IF Cell = 0
            THEN result' = Err(UnmatchedOpenBracket(instruction_ptr))
            ELSE /\ result' = Ok(FALSE)
                 /\ instruction_ptr' = instruction_ptr + 1]_vars
    /\ [](\A i \in 0..Len(program) :
            result = Err(UnmatchedOpenBracket(i)) =>
                /\ Get(program, i) = FromChar("[")
                /\ i \notin DOMAIN open_to_close)

\* A step has failed on the unresolved `[` at index 2, after two other steps.
C4_Witness ==
    /\ result = Err(UnmatchedOpenBracket(2))
    /\ instruction_ptr = 2 /\ executed = 2

\* C5: a step on a LoopEnd at index i with no close_to_open entry returns
\* UnmatchedCloseBracket(i) when the cell is not zero, and when the cell is zero
\* returns Ok(false) with the instruction pointer at i + 1.
C5_UnmatchedClose ==
    /\ [][AtUnresolvedClose =>
            IF Cell # 0
            THEN result' = Err(UnmatchedCloseBracket(instruction_ptr))
            ELSE /\ result' = Ok(FALSE)
                 /\ instruction_ptr' = instruction_ptr + 1]_vars
    /\ [](\A i \in 0..Len(program) :
            result = Err(UnmatchedCloseBracket(i)) =>
                /\ Get(program, i) = FromChar("]")
                /\ i \notin DOMAIN close_to_open)

\* A step has failed on the unresolved `]` at index 1, the cell holding 1.
C5_Witness ==
    /\ result = Err(UnmatchedCloseBracket(1))
    /\ instruction_ptr = 1 /\ Cell = 1

\* The state a bracket error `e` is raised in: the instruction pointer is on the
\* unresolved bracket the error names, the cell holding the triggering value.
Triggers(e) ==
    \/ /\ AtUnresolvedOpen /\ Cell = 0
       /\ e = Err(UnmatchedOpenBracket(instruction_ptr))
    \/ /\ AtUnresolvedClose /\ Cell # 0
       /\ e = Err(UnmatchedCloseBracket(instruction_ptr))

\* Some bracket of the program is in neither table.
Malformed ==
    \E i \in 0..Len(program) - 1 :
        \/ Get(program, i) = While /\ i \notin DOMAIN open_to_close
        \/ Get(program, i) = WhileEnd /\ i \notin DOMAIN close_to_open

\* C6: construction raises no error, whatever the brackets of the program (no
\* error before the first step); a bracket error is returned only by a step
\* taken with the instruction pointer on an unresolved bracket and the
\* triggering cell value, and run() returns a bracket error only so.
C6_DeferredBracketValidation ==
    /\ [](result = None => (ret = None /\ instruction_ptr = 0 /\ executed = 0))
    /\ [][IsBracketErr(result') => Triggers(result')]_vars
    /\ []((Returned /\ IsBracketErr(ret)) => (ret = result /\ Triggers(ret)))

\* run() has returned Ok for `]+[`: both brackets are unresolved, the `]` is
\* reached with a zero cell and the `[` with a cell that is not zero.
C6_Witness ==
    /\ Returned /\ IsOk(ret) /\ Malformed
    /\ program = FromStr(<<"]", "+", "[">>)

(***************************************************************************)
(* C7, C8: Read and Write.                                                 *)
(***************************************************************************)
\* Every cell but the one under the data pointer is left as it was.
OtherCellsKept ==
    /\ Len(memory') = Len(memory)
    /\ \A k \in 1..Len(memory) : k # data_ptr + 1 => memory'[k] = memory[k]

\* C7: a Read step whose read call does not fail returns Ok(false) and advances
\* the instruction pointer by one; having read a byte b it stores b in the cell
\* under the data pointer, and at the end of input (zero bytes read) it stores
\* 2^W - 1 (255 for 8-bit cells, 65535 for 16-bit cells); no other cell and not the
\* data pointer changes.
C7_Read ==
    [][(Get(program, instruction_ptr) = Read /\ io_ret' # <<"read", Err(Io)>>) =>
         /\ result' = Ok(FALSE)
         /\ instruction_ptr' = instruction_ptr + 1
         /\ data_ptr' = data_ptr
         /\ OtherCellsKept
         /\ output' = output
         /\ IF input # << >>
            THEN /\ io_ret' = <<"read", Ok(1)>>
                 /\ memory'[data_ptr + 1] = Head(input)
                 /\ input' = Tail(input)
            ELSE /\ io_ret' = <<"read", Ok(0)>>
                 /\ memory'[data_ptr + 1] = 2 ^ bits - 1
                 /\ memory'[data_ptr + 1] = IF bits = 8 THEN 255 ELSE 65535
                 /\ input' = input]_vars

\* A Read step of a 16-bit machine at the end of its input has stored 65535 in
\* the cell at index 1, next to the byte 47 read before.
C7_Witness ==
    /\ bits = 16 /\ io_ret = <<"read", Ok(0)>> /\ result = Ok(FALSE)
    /\ data_ptr = 1 /\ memory = <<47, 65535>>

\* C8: a Write step whose write_all call succeeds returns Ok(false), appends
\* one byte to the output, the cell value modulo 256 when W > 8 and the cell value
\* itself when W <= 8, and leaves the tape and the data pointer unchanged; a
\* Write step never panics; the output changes only by a Write step appending
\* one byte. A 16-bit cell holding 300 writes 44.
C8_Write ==
    /\ [][(Get(program, instruction_ptr) = Write
             /\ io_ret' # <<"write_all", Err(Io)>>) =>
            /\ io_ret' = <<"write_all", Ok(<< >>)>>
            /\ result' = Ok(FALSE)
            /\ output' = Append(output, IF bits > 8 THEN Cell % 256 ELSE Cell)
            /\ output'[Len(output')] \in 0..255
            /\ memory' = memory
            /\ data_ptr' = data_ptr]_vars
    /\ [][output' # output =>
            /\ Get(program, instruction_ptr) = Write
            /\ Len(output') = Len(output) + 1
            /\ SubSeq(output', 1, Len(output)) = output]_vars
    /\ [](WriteValue(16, 300) = 44 /\ WriteValue(8, 200) = 200)

\* A 16-bit cell holding 256 has been written as the byte 0.
C8_Witness ==
    /\ bits = 16 /\ io_ret = <<"write_all", Ok(<< >>)>>
    /\ Cell = 256 /\ output = <<0>>

(***************************************************************************)
(* C9: Increment and Decrement.                                            *)
(***************************************************************************)
\* Over every value of every cell width of the model: incrementing and then
\* decrementing, or decrementing and then incrementing, gives the value back, and
\* the boundaries wrap.
IncDecInverse ==
    \A b \in Widths :
        /\ \A x \in 0..(2 ^ b - 1) :
              /\ WrappingAdd(b, x) \in 0..(2 ^ b - 1)
              /\ WrappingSub(b, x) \in 0..(2 ^ b - 1)
              /\ WrappingSub(b, WrappingAdd(b, x)) = x
              /\ WrappingAdd(b, WrappingSub(b, x)) = x
        /\ WrappingSub(b, 0) = 2 ^ b - 1
        /\ WrappingAdd(b, 2 ^ b - 1) = 0

\* The value the first instruction of `,+-` or `,-+` reads.
FirstRead == IF given = << >> THEN 2 ^ bits - 1 ELSE given[1]

\* C9: an Increment step and a Decrement step never fail and change only the
\* cell under the data pointer; the new value of an Increment is the old one
\* plus one modulo 2^W and a Decrement of it gives the old value back, and the
\* same with the two exchanged; after `,+-` and after `,-+` the cell holds the
\* value read.
C9_IncrementDecrement ==
    /\ [](IncDecInverse)
    /\ [][Get(program, instruction_ptr) = Increment =>
            /\ result' = Ok(FALSE)
            /\ data_ptr' = data_ptr /\ OtherCellsKept
            /\ memory'[data_ptr + 1] = (Cell + 1) % (2 ^ bits)
            /\ WrappingSub(bits, memory'[data_ptr + 1]) = Cell]_vars
    /\ [][Get(program, instruction_ptr) = Decrement =>
            /\ result' = Ok(FALSE)
            /\ data_ptr' = data_ptr /\ OtherCellsKept
            /\ memory'[data_ptr + 1] = (Cell + 2 ^ bits - 1) % (2 ^ bits)
            /\ WrappingAdd(bits, memory'[data_ptr + 1]) = Cell]_vars
    /\ []((/\ program \in {<<Read, Increment, Decrement>>,
                           <<Read, Decrement, Increment>>}
           /\ instruction_ptr = 3) => Cell = FirstRead)

\* `,+-` on a 16-bit machine with no input: 65535 was read, incremented to 0 and
\* decremented back to 65535.
C9_Witness ==
    /\ program = <<Read, Increment, Decrement>> /\ bits = 16 /\ given = << >>
    /\ instruction_ptr = 3 /\ Cell = 65535

(***************************************************************************)
(* C10: moving the data pointer.                                           *)
(***************************************************************************)
\* The largest number of moves each way the round trips are checked for.
MaxMoves == 3

\* The tape and data pointer after one MoveRight, one MoveLeft.
TapeRight(t) ==
    [memory |-> RightMemory(t.memory, t.data_ptr), data_ptr |-> RightPtr(t.data_ptr)]
TapeLeft(t) ==
    [memory |-> LeftMemory(t.memory, t.data_ptr), data_ptr |-> LeftPtr(t.data_ptr)]

RECURSIVE Rights(_, _)
Rights(t, k) == IF k = 0 THEN t ELSE Rights(TapeRight(t), k - 1)
RECURSIVE Lefts(_, _)
Lefts(t, k) == IF k = 0 THEN t ELSE Lefts(TapeLeft(t), k - 1)

\* The cell under the data pointer of a tape, -1 when there is none.
CellOf(t) == IF t.data_ptr < Len(t.memory) THEN t.memory[t.data_ptr + 1] ELSE -1

Tape == [memory |-> memory, data_ptr |-> data_ptr]

\* C10: a program of MoveLeft steps only never fails and every cell it lands on
\* is zero (the pointer stays at index 0 of a tape of zeros, one cell longer for
\* each step); a MoveLeft or MoveRight step never fails; and from every
\* reachable tape, k moves right and then k moves left, or k moves left and then k
\* moves right, end on a cell holding the value of the cell they started on.
C10_TapeMovement ==
    /\ []((\A i \in 1..Len(program) : program[i] = MoveLeft) =>
            /\ result \in {None, Ok(FALSE), Ok(TRUE)}
            /\ data_ptr = 0 /\ AllZero
            /\ Len(memory) = 1 + executed)
    /\ [][Get(program, instruction_ptr) \in {MoveLeft, MoveRight} =>
            /\ result' = Ok(FALSE)
            /\ CellExists'
            /\ Get(program, instruction_ptr) = MoveLeft =>
                  (data_ptr = 0 => (data_ptr' = 0 /\ memory'[1] = 0))]_vars
    /\ [](\A k \in 1..MaxMoves :
            /\ CellOf(Lefts(Rights(Tape, k), k)) = Cell
            /\ CellOf(Rights(Lefts(Tape, k), k)) = Cell)
    /\ []((/\ program \in {<<Increment, MoveLeft, MoveRight>>,
                           <<Increment, MoveRight, MoveLeft>>}
           /\ instruction_ptr = 3) => Cell = 1)

\* `+<>` has been executed: the cell holding 1 was pushed to index 1 by the
\* prepended cell and the data pointer is back on it.
C10_Witness ==
    /\ program = <<Increment, MoveLeft, MoveRight>> /\ instruction_ptr = 3
    /\ memory = <<0, 1>> /\ data_ptr = 1 /\ Cell = 1

(***************************************************************************)
(* C11: Program construction and lookup.                                   *)
(***************************************************************************)
\* The longest text construction is checked on, beyond the programs that are run.
MaxTextLen == 3

\* The characters of those texts: the reserved ones and four others.
TextChars == Chars \cup {"y", " ", "#", "0"}

Texts == UNION {[1..n -> TextChars] : n \in 0..MaxTextLen}

\* The instruction the table of the claim gives for a character.
Tabled(c) ==
    IF c = ">" THEN MoveRight
    ELSE IF c = "<" THEN MoveLeft
    ELSE IF c = "+" THEN Increment
    ELSE IF c = "-" THEN Decrement
    ELSE IF c = "." THEN Write
    ELSE IF c = "," THEN Read
    ELSE IF c = "[" THEN While
    ELSE IF c = "]" THEN WhileEnd
    ELSE [op |-> "Comment", ch |-> c]

\* `prog` is the text `s` instruction by instruction, and lookup returns the i-th
\* instruction inside the program and None from its length on.
Constructed(s, prog) ==
    /\ DOMAIN prog = 1..Len(s)
    /\ \A i \in 1..Len(s) : prog[i] = Tabled(s[i])
    /\ \A i \in 0..Len(s) - 1 : Get(prog, i) = Tabled(s[i + 1])
    /\ \A i \in Len(s)..Len(s) + 2 : Get(prog, i) = None

\* Construction and lookup are right on every text.
EveryTextConstructed == \A s \in Texts : Constructed(s, FromStr(s))

\* C11: for every source text, construction yields one instruction per
\* character, in order, by the fixed table (`>` MoveRight, `<` MoveLeft,
\* `+` Increment, `-` Decrement, `.` Write, `,` Read, `[` While, `]` WhileEnd, any
\* other character c Comment(c)); lookup at i returns the i-th instruction for
\* 0 <= i < N and None for every i >= N. It holds of every text of the model and
\* of the program of every machine.
C11_ProgramConstruction ==
    /\ EveryTextConstructed
    /\ Constructed(source, program)

\* The machine of `,x]` has run to the end: its program is Read, Comment("x"),
\* WhileEnd and the lookup at 3 found nothing.
C11_Witness ==
    /\ source = <<",", "x", "]">>
    /\ program = <<Read, Comment("x"), WhileEnd>>
    /\ instruction_ptr = 3 /\ result = Ok(TRUE)

(***************************************************************************)
(* C12: the loop tables.                                                   *)
(***************************************************************************)
\* The longest bracket text the tables are checked on, beyond the programs that
\* are run.
MaxBracketLen == 5

BracketTexts == UNION {[1..n -> {"[", "]", "+"}] : n \in 0..MaxBracketLen}

\* The matching pairs of a program: a `[` at j and a later `]` at i with balanced
\* brackets strictly between them.
MatchingPairs(prog) ==
    {p \in (0..Len(prog) - 1) \X (0..Len(prog) - 1) :
        /\ prog[p[1] + 1] = While
        /\ prog[p[2] + 1] = WhileEnd
        /\ p[1] < p[2]
        /\ Balanced(SubSeq(prog, p[1] + 2, p[2]))}

Range(f) == {f[k] : k \in DOMAIN f}

\* The tables hold the matching pairs of the program and nothing else.
TablesMatch(prog, o2c, c2o) ==
    LET pairs == MatchingPairs(prog)
        partnerless == {k \in 0..Len(prog) - 1 :
                          \A p \in pairs : p[1] # k /\ p[2] # k}
    IN  /\ DOMAIN o2c = {p[1] : p \in pairs}
        /\ DOMAIN c2o = {p[2] : p \in pairs}
        /\ \A p \in pairs : o2c[p[1]] = p[2] /\ c2o[p[2]] = p[1]
        /\ \A j \in DOMAIN o2c : prog[j + 1] = While /\ c2o[o2c[j]] = j
        /\ \A i \in DOMAIN c2o : prog[i + 1] = WhileEnd /\ o2c[c2o[i]] = i
        /\ partnerless \cap (DOMAIN o2c \cup Range(o2c)) = {}
        /\ partnerless \cap (DOMAIN c2o \cup Range(c2o)) = {}

\* Machine::new builds the right tables for every bracket text.
EveryTextMatched ==
    \A s \in BracketTexts :
        TablesMatch(FromStr(s), Tables(FromStr(s)).open_to_close,
                    Tables(FromStr(s)).close_to_open)

\* C12: open_to_close maps j to i exactly when the `[` at j and the `]` at i are
\* a matching pair (j < i, the brackets strictly between them balanced);
\* close_to_open is the inverse; every key of open_to_close is the position of a
\* `[` and every key of close_to_open the position of a `]`; a bracket with no
\* partner is in neither table, as key or as value; and no step changes a table
\* or the program.
C12_JumpTables ==
    /\ [](EveryTextMatched)
    /\ [](TablesMatch(program, open_to_close, close_to_open))
    /\ [][/\ open_to_close' = open_to_close
          /\ close_to_open' = close_to_open
          /\ program' = program]_vars

\* `][]` after two steps: the pair (1, 2) is in the tables, the `]` at 0 is not, and
\* the `[` at 1, taken with a zero cell, has jumped past its `]`.
C12_Witness ==
    /\ source = <<"]", "[", "]">> /\ executed = 2 /\ instruction_ptr = 3
    /\ open_to_close = (1 :> 2) /\ close_to_open = (2 :> 1)

(***************************************************************************)
(* C13: the tape.                                                          *)
(***************************************************************************)
\* C13: in every reachable state the tape holds at least one cell and the data
\* pointer is an index into it, and no step panics on a cell access; a step leaves
\* the length of the tape as it was or makes it one longer: by a zero cell at the
\* right end, on a MoveRight from the last cell, or by a zero cell at the left end,
\* on a MoveLeft from index 0; the tape never shrinks.
C13_TapeInvariant ==
    /\ [](Len(memory) >= 1 /\ data_ptr \in 0..Len(memory) - 1)
    /\ [](result # Panic)
    /\ [][Len(memory') # Len(memory) =>
            \/ /\ Get(program, instruction_ptr) = MoveRight
               /\ data_ptr = Len(memory) - 1
               /\ memory' = memory \o <<0>>
            \/ /\ Get(program, instruction_ptr) = MoveLeft
               /\ data_ptr = 0
               /\ memory' = <<0>> \o memory]_vars
    /\ [][~(\/ Get(program, instruction_ptr) = MoveRight /\ data_ptr = Len(memory) - 1
            \/ Get(program, instruction_ptr) = MoveLeft /\ data_ptr = 0) =>
            Len(memory') = Len(memory)]_vars

\* `<>>` has been executed: the tape grew by one cell at the left end and by one
\* at the right end, and the data pointer is on the last cell.
C13_Witness ==
    /\ source = <<"<", ">", ">">> /\ instruction_ptr = 3
    /\ memory = <<0, 0, 0>> /\ data_ptr = 2 /\ offset = 1

(***************************************************************************)
(* C14, C15: where the loop jumps land.                                    *)
(***************************************************************************)
\* The instruction pointer is on a `[`, on a `]`.
AtWhile == Get(program, instruction_ptr) = While
AtWhileEnd == Get(program, instruction_ptr) = WhileEnd

\* The `]`-jump is taken: the cell is not zero and the `]` has an entry.
TakenWhileEnd == AtWhileEnd /\ Cell # 0 /\ instruction_ptr \in DOMAIN close_to_open

\* The `[`-jump is taken: the cell is zero and the `[` has an entry.
TakenWhile == AtWhile /\ Cell = 0 /\ instruction_ptr \in DOMAIN open_to_close

\* C14: a step on a `[` at j with a zero cell and matching close c leaves the
\* instruction pointer at c + 1, past the matching `]`; a step on a `]` at i with a
\* cell that is not zero and matching open j leaves it at j + 1, on the first
\* instruction of the loop body; a `[` with a cell that is not zero and a `]` with
\* a zero cell advance the instruction pointer by one; none of these steps
\* changes the tape, the data pointer, the input or the output.
C14_LoopLanding ==
    /\ [][TakenWhile =>
            /\ result' = Ok(FALSE)
            /\ instruction_ptr' = open_to_close[instruction_ptr] + 1
            /\ <<instruction_ptr, instruction_ptr' - 1>> \in MatchingPairs(program)]_vars
    /\ [][TakenWhileEnd =>
            /\ result' = Ok(FALSE)
            /\ instruction_ptr' = close_to_open[instruction_ptr] + 1
            /\ <<instruction_ptr' - 1, instruction_ptr>> \in MatchingPairs(program)]_vars
    /\ [][((AtWhile /\ Cell # 0) \/ (AtWhileEnd /\ Cell = 0)) =>
            /\ result' = Ok(FALSE)
            /\ instruction_ptr' = instruction_ptr + 1]_vars
    /\ [][(AtWhile \/ AtWhileEnd) =>
            /\ memory' = memory /\ data_ptr' = data_ptr
            /\ input' = input /\ output' = output]_vars

\* `+[]` after three steps: the `]` at 2, taken with the cell holding 1, has left
\* the instruction pointer at 2, one past the `[` at 1.
C14_Witness ==
    /\ source = <<"+", "[", "]">> /\ executed = 3
    /\ instruction_ptr = 2 /\ Cell = 1

\* C15 as the specification states it: when a `]` is reached with a cell that is
\* not zero and has a recorded matching open, the next instruction executed is
\* the matching `[`, which is evaluated again.
C15_ReevaluatesLoopStart ==
    [][TakenWhileEnd =>
         /\ instruction_ptr' = close_to_open[instruction_ptr]
         /\ Get(program, instruction_ptr') = While]_vars

\* C15: when a `]` is reached with a cell that is not zero and has a recorded
\* matching open, the step leaves the instruction pointer one past that open
\* position: the next instruction executed is the first one of the loop body (the
\* `]` itself when the body is empty), not the matching `[`, which is not
\* evaluated again; the cell is still not zero, so that evaluating the `[` would
\* have led to the same position.
C15_ResumesInLoopBody ==
    [][TakenWhileEnd =>
         LET open == close_to_open[instruction_ptr]
         IN  /\ Get(program, open) = While
             /\ instruction_ptr' = open + 1
             /\ instruction_ptr' # open
             /\ instruction_ptr' \in open + 1..instruction_ptr
             /\ Get(program, instruction_ptr') # None
             /\ Cell' # 0 /\ data_ptr' = data_ptr]_vars

\* The cat program on the input 47, 47, after eight steps: the `]` at 7, taken with
\* the cell holding 48, has left the instruction pointer on the `-` at 3, the first
\* instruction after the `[` at 2.
C15_Witness ==
    /\ IsCat /\ given = <<47, 47>> /\ executed = 8
    /\ instruction_ptr = 3 /\ Get(program, instruction_ptr) = Decrement
    /\ Cell = 48 /\ output = <<47>>

(***************************************************************************)
(* C16, C17: the instruction pointer and completion.                       *)
(***************************************************************************)
\* The machine has an instruction to execute; it has none: the program is over.
Running == instruction_ptr \in 0..Len(program) - 1
Completed == instruction_ptr = Len(program)

\* C16: in every reachable state the instruction pointer is in 0..N, N the
\* length of the program; the machine has an instruction to fetch exactly when
\* the pointer is below N and fetches nothing exactly when it equals N; no
\* step, a taken jump followed by the increment included, moves the pointer
\* past N.
C16_InstructionPointer ==
    /\ [](instruction_ptr \in 0..Len(program))
    /\ [](Running <=> Get(program, instruction_ptr) # None)
    /\ [](Completed <=> Get(program, instruction_ptr) = None)
    /\ [](Running <=> ~Completed)
    /\ [][instruction_ptr' <= Len(program)]_vars
    /\ [][(TakenWhile \/ TakenWhileEnd) =>
            instruction_ptr' \in 1..Len(program)]_vars

\* `x[]` after two steps: the `[` at 1, taken with a zero cell, has jumped to the
\* `]` at 2, the last instruction, and the increment has left the pointer at 3 = N.
C16_Witness ==
    /\ source = <<"x", "[", "]">> /\ executed = 2
    /\ instruction_ptr = 3 /\ Completed /\ result = Ok(FALSE)

\* A step that executes an instruction.
ExecutingStep ==
    \/ StepMoveRight \/ StepMoveLeft \/ StepIncrement \/ StepDecrement
    \/ StepWrite \/ StepRead \/ StepWhile \/ StepWhileEnd \/ StepComment

\* C17: a step() call returns Ok(true) if and only if the instruction pointer
\* equals N when the call starts; that call changes nothing (instruction
\* pointer, data pointer, tape, input, output); every later call finds the
\* machine completed again: no instruction can be executed and the call returns
\* Ok(true); run() returns Ok only after a step() that returned Ok(true), with
\* the pointer at N.
C17_CompletedIsTerminal ==
    /\ [][(result' = Ok(TRUE)) <=> Completed]_vars
    /\ [][Completed =>
            /\ instruction_ptr' = instruction_ptr /\ data_ptr' = data_ptr
            /\ memory' = memory /\ input' = input /\ output' = output]_vars
    /\ [](result = Ok(TRUE) => Completed)
    /\ [](Completed => ~ENABLED ExecutingStep)
    /\ []((Completed /\ ~ByRun /\ executed < MaxSteps) => ENABLED StepCompleted)
    /\ [][result = Ok(TRUE) => result' = Ok(TRUE)]_vars
    /\ []((Returned /\ IsOk(ret)) =>
            (result = Ok(TRUE) /\ Completed /\ ret = Ok(time)))
    /\ []((ByRun /\ result = Ok(TRUE)) => (Returned /\ IsOk(ret)))

\* step() was called directly on `,.x` with the input 47 and has returned
\* Ok(true): the pointer is at 3, and the byte written and the tape are those the
\* three instructions left.
C17_Witness ==
    /\ ~ByRun /\ source = <<",", ".", "x">> /\ given = <<47>>
    /\ result = Ok(TRUE) /\ Completed /\ executed = 3
    /\ output = <<47>> /\ memory = <<47>> /\ input = << >>

(***************************************************************************)
(* C18, C20: failed steps.                                                 *)
(***************************************************************************)
\* C18: once a step() call has failed with UnmatchedOpenBracket,
\* UnmatchedCloseBracket or an I/O failure, no later step() call succeeds,
\* advances the instruction pointer, changes the tape or produces output, even
\* when the source or the sink would succeed if called again; and run() calls
\* step() no more after the first failure.
C18_FaultedIsTerminal ==
    /\ [][IsErr(result) =>
            /\ IsErr(result')
            /\ instruction_ptr' = instruction_ptr
            /\ memory' = memory
            /\ output' = output]_vars
    /\ []((Returned /\ IsErr(ret)) => ~ENABLED Next)

\* C20: a step() call that returns UnmatchedOpenBracket, UnmatchedCloseBracket or
\* an I/O failure leaves the instruction pointer, the data pointer and every tape
\* cell as they were: the pointer is still on the faulting instruction and the
\* cell under a failed Read is not overwritten; after an unmatched-bracket
\* failure the state is the one that raised it, so that the next step() call
\* returns the same error with the same index and changes nothing.
C20_FailedStepChangesNothing ==
    /\ [][IsErr(result') =>
            /\ instruction_ptr' = instruction_ptr
            /\ data_ptr' = data_ptr
            /\ memory' = memory
            /\ output' = output
            /\ Get(program, instruction_ptr') \in {While, WhileEnd, Read, Write}]_vars
    /\ [][io_ret' = <<"read", Err(Io)>> =>
            /\ result' = Err(Io)
            /\ Get(program, instruction_ptr') = Read
            /\ Cell' = Cell]_vars
    /\ [][io_ret' = <<"write_all", Err(Io)>> =>
            /\ result' = Err(Io)
            /\ Get(program, instruction_ptr') = Write]_vars
    /\ [](IsBracketErr(result) => Triggers(result))
    /\ [][~IsBracketErr(result)]_vars
    /\ []((IsBracketErr(result) /\ ~ByRun /\ executed < MaxSteps) =>
            ENABLED (StepWhile \/ StepWhileEnd))

\* `+,` on the input 47, the read call failing: the pointer is still on the `,`, the
\* cell still holds 1 and the byte has not been taken.
C20_Witness ==
    /\ source = <<"+", ",">> /\ given = <<47>>
    /\ io_ret = <<"read", Err(Io)>> /\ result = Err(Io)
    /\ instruction_ptr = 1 /\ memory = <<1>> /\ input = <<47>>

(***************************************************************************)
(* C19: the memory as a tape unbounded both ways.                          *)
(***************************************************************************)
\* The logical positions a machine of the model can reach, and one more each way.
Window == -(MaxSteps + 1)..(MaxSteps + 1)

\* The abstract tape and pointer the machine stands for: the logical position p
\* is the cell at index p + offset where that is materialized and holds zero where
\* it is not; the data pointer is the logical pointer plus offset.
AbsTape ==
    [p \in Window |->
        IF p + offset \in 0..Len(memory) - 1 THEN memory[p + offset + 1] ELSE 0]
AbsPtr == data_ptr - offset

\* One step of the abstract machine on instruction `ins`, from tape t and
\* pointer p to tape u and pointer q; `ok`: the step did not fail; `v`: the value a
\* Read stores.
AbsStep(ins, ok, v, t, p, u, q) ==
    IF ~ok THEN u = t /\ q = p
    ELSE IF ins = MoveRight THEN u = t /\ q = p + 1
    ELSE IF ins = MoveLeft THEN u = t /\ q = p - 1
    ELSE IF ins = Increment
         THEN u = [t EXCEPT ![p] = (t[p] + 1) % 2 ^ bits] /\ q = p
    ELSE IF ins = Decrement
         THEN u = [t EXCEPT ![p] = (t[p] + 2 ^ bits - 1) % 2 ^ bits] /\ q = p
    ELSE IF ins = Read THEN u = [t EXCEPT ![p] = v] /\ q = p
    ELSE u = t /\ q = p

\* The value a Read step stores, from the state before it.
ReadStores == IF input = << >> THEN 2 ^ bits - 1 ELSE Head(input)

\* C19: the memory with its data pointer stands for a tape unbounded both ways,
\* all zero at first, with a signed pointer: with offset the number of cells
\* prepended so far, memory[k] is the abstract cell k - offset, data_ptr is the
\* abstract pointer plus offset and every abstract cell that is not materialized
\* holds zero; every step of the machine is the step of the abstract machine on
\* the same instruction, and both see the same cell under their pointers. A
\* MoveLeft at index 0 prepends a zero cell, keeps data_ptr at 0 and moves every
\* cell one index up with its value.
C19_TapeRefinement ==
    /\ [](result = None => (AbsPtr = 0 /\ \A p \in Window : AbsTape[p] = 0))
    /\ [](/\ offset \in 0..Len(memory) - 1
          /\ AbsPtr \in Window
          /\ AbsTape[AbsPtr] = Cell
          /\ \A k \in 0..Len(memory) - 1 : memory[k + 1] = AbsTape[k - offset])
    /\ [][AbsStep(Get(program, instruction_ptr), result' = Ok(FALSE), ReadStores,
                  AbsTape, AbsPtr, AbsTape', AbsPtr')]_vars
    /\ [][(Get(program, instruction_ptr) = MoveLeft /\ data_ptr = 0) =>
            /\ Len(memory') = Len(memory) + 1
            /\ memory'[1] = 0
            /\ data_ptr' = 0
            /\ offset' = offset + 1
            /\ \A k \in 1..Len(memory) : memory'[k + 1] = memory[k]]_vars

\* `+<<` has been executed: two cells were prepended, the cell holding 1 is at
\* index 2 and is the abstract cell 0, and the pointer at index 0 is the abstract
\* pointer -2.
C19_Witness ==
    /\ source = <<"+", "<", "<">> /\ instruction_ptr = 3
    /\ memory = <<0, 0, 1>> /\ data_ptr = 0 /\ offset = 2
    /\ AbsPtr = -2 /\ AbsTape[0] = 1 /\ AbsTape[-2] = 0

=============================================================================
